---- MODULE Spec2Model ----
(***************************************************************************)
(* Verification model of the AI trading system sources:                    *)
(*   - TokenUsageManager (daily token budget) shared by concurrent callers *)
(*   - the Step Functions trading-cycle state machine of the CDK stack     *)
(*   - MCPOrchestrator.start_trading_cycle (budget check at cycle start)   *)
(*   - _make_final_decision (signal agent's final decision)                *)
(* Fractions (thresholds, confidences, signal strengths) are fixed-point   *)
(* integers in units of 1/100000, so 0.5 is 50000 and 0.49999 is 49999.    *)
(***************************************************************************)
EXTENDS Integers, Sequences, FiniteSets, TLC

\* ------------------------------------------------------------------------
\* Bounds of the model
\* ------------------------------------------------------------------------
NumCallers == 2
NumDays == 2
MaxRequests == 2
MaxTokens == 2
DailyTokenLimit == 3

Callers == 1..NumCallers
Dates == 1..NumDays

\* TokenUsageTracker table (total_tokens per date) and the calendar date
VARIABLE usage_table
VARIABLE today
\* per caller: the TokenUsageManager's date_key, the position inside
\* invoke_model_with_budget_control, its locals and its last return value
VARIABLE date_key
VARIABLE pc
VARIABLE est
VARIABLE seen
VARIABLE actual
VARIABLE result
\* calls of invoke_model_with_budget_control and of bedrock invoke_model
VARIABLE paidCalls
VARIABLE requests
\* Step Functions executions of TradingCycleStateMachine: execution status,
\* current state of the definition, $.Payload.isComplete of the last task
\* output, seconds since the execution started, whether LogResults ran
VARIABLE status
VARIABLE state
VARIABLE isComplete
VARIABLE elapsed
VARIABLE logged
\* start_trading_cycle: budget checks made for the cycle, returned reason
VARIABLE budgetChecks
VARIABLE reason
\* DailyTradingRule is enabled
VARIABLE ruleEnabled
\* _make_final_decision: analysis_responses, the decision parsed from the
\* model output, the threshold applied and the decision returned
VARIABLE analysis_responses
VARIABLE model_output
VARIABLE action_threshold
VARIABLE final_decision
VARIABLE decided
\* _validate_trade_request: the request, the account information of the
\* api client, the current price and the returned validation
VARIABLE trade_request
VARIABLE account_info
VARIABLE current_price
VARIABLE validation
VARIABLE validated
\* order submission: the items of the TradingOrders table, the orders
\* created on the execution surface per order id, and per submitter the
\* position in submit, the order id, the attempts made and the status
\* returned; the submissions begun so far
VARIABLE orders_table
VARIABLE placed
VARIABLE sub_pc
VARIABLE sub_order
VARIABLE sub_attempts
VARIABLE sub_result
VARIABLE submissions
\* execute_trading_cycle_with_budget_control: the day's total_tokens in the
\* usage table, the manager's daily_token_limit, the usage as read, the
\* collection mode of each agent and whether the function has run
VARIABLE stored_usage
VARIABLE daily_limit
VARIABLE usage_read
VARIABLE dispatched
VARIABLE scope_done
\* ResourceAllocator: allocations per priority, the last request and its
\* return value, the parity of the number of requests made
VARIABLE allocations
VARIABLE alloc_request
VARIABLE alloc_result
VARIABLE alloc_turn
\* a stage of a cycle: the agent tasks dispatched, those that have finished,
\* the isComplete answer of the last completion check and the checks made
VARIABLE stage_dispatched
VARIABLE stage_finished
VARIABLE stage_complete
VARIABLE stage_polls

ledgerVars == <<usage_table, today, date_key, pc, est, seen, actual, result,
                paidCalls, requests>>

cycleVars == <<status, state, isComplete, elapsed, logged, budgetChecks,
               reason, ruleEnabled>>

decisionVars == <<analysis_responses, model_output, action_threshold,
                  final_decision, decided>>

gatewayVars == <<trade_request, account_info, current_price, validation,
                 validated>>

submitVars == <<orders_table, placed, sub_pc, sub_order, sub_attempts,
                sub_result, submissions>>

scopeVars == <<stored_usage, daily_limit, usage_read, dispatched,
               scope_done>>

allocVars == <<allocations, alloc_request, alloc_result, alloc_turn>>

joinVars == <<stage_dispatched, stage_finished, stage_complete, stage_polls>>

vars == <<ledgerVars, cycleVars, decisionVars, gatewayVars, submitVars,
          scopeVars, allocVars, joinVars>>

nonLedgerVars ==
    <<cycleVars, decisionVars, gatewayVars, submitVars,
      scopeVars, allocVars, joinVars>>

nonCycleVars ==
    <<ledgerVars, decisionVars, gatewayVars, submitVars,
      scopeVars, allocVars, joinVars>>

nonDecisionVars ==
    <<ledgerVars, cycleVars, gatewayVars, submitVars,
      scopeVars, allocVars, joinVars>>

nonGatewayVars ==
    <<ledgerVars, cycleVars, decisionVars, submitVars,
      scopeVars, allocVars, joinVars>>

nonSubmitVars ==
    <<ledgerVars, cycleVars, decisionVars, gatewayVars,
      scopeVars, allocVars, joinVars>>

nonScopeVars ==
    <<ledgerVars, cycleVars, decisionVars, gatewayVars,
      submitVars, allocVars, joinVars>>

nonAllocVars ==
    <<ledgerVars, cycleVars, decisionVars, gatewayVars,
      submitVars, scopeVars, joinVars>>

nonJoinVars ==
    <<ledgerVars, cycleVars, decisionVars, gatewayVars,
      submitVars, scopeVars, allocVars>>

\* ------------------------------------------------------------------------
\* TokenUsageManager
\* ------------------------------------------------------------------------

\* A usage read that reports the limit as exceeded when the read raises.
get_current_usage_failing_closed(c, readOk) ==
    IF readOk THEN usage_table[date_key[c]] ELSE DailyTokenLimit + 1

\* get_current_usage: the item's total_tokens, 0 when the item is absent
\* (the table starts at 0) and 0 when the read raises.
get_current_usage(c, readOk) ==
    IF readOk THEN usage_table[date_key[c]] ELSE 0

\* The check with the estimate left out of the comparison.
can_process_request_ignoring_estimate(current_usage, estimated_tokens) ==
    current_usage <= DailyTokenLimit

\* can_process_request: (current_usage + estimated_tokens) <= limit
can_process_request(current_usage, estimated_tokens) ==
    (current_usage + estimated_tokens) <= DailyTokenLimit

\* An update that sets total_tokens to the token count instead of adding.
update_usage_overwriting(c, token_count, writeOk) ==
    IF writeOk
    THEN [usage_table EXCEPT ![date_key[c]] = token_count]
    ELSE usage_table

\* update_usage: ADD total_tokens :tokens on the item of date_key; a failed
\* update is logged and swallowed.
update_usage(c, token_count, writeOk) ==
    IF writeOk
    THEN [usage_table EXCEPT ![date_key[c]] = @ + token_count]
    ELSE usage_table

LedgerStart ==
    /\ usage_table = [d \in Dates |-> 0]
    /\ today = 1
    /\ date_key = [c \in Callers |-> 0]
    /\ pc = [c \in Callers |-> "new"]
    /\ est = [c \in Callers |-> 0]
    /\ seen = [c \in Callers |-> 0]
    /\ actual = [c \in Callers |-> 0]
    /\ result = [c \in Callers |-> "none"]
    /\ paidCalls = 0
    /\ requests = 0

\* TokenUsageManager.__init__: date_key is fixed at construction.
Construct(c) ==
    /\ pc[c] = "new"
    /\ date_key' = [date_key EXCEPT ![c] = today]
    /\ pc' = [pc EXCEPT ![c] = "idle"]
    /\ UNCHANGED <<usage_table, today, est, seen, actual, result, paidCalls,
                   requests>>
    /\ UNCHANGED nonLedgerVars

\* The calendar date advances (datetime.now() of later constructions).
NewDay ==
    /\ today < NumDays
    /\ today' = today + 1
    /\ UNCHANGED <<usage_table, date_key, pc, est, seen, actual, result,
                   paidCalls, requests>>
    /\ UNCHANGED nonLedgerVars

\* invoke_model_with_budget_control, up to the budget check: estimate the
\* tokens, read the usage, refuse or go on to the model call.
CheckBudget(c, estimated_total_tokens, readOk) ==
    /\ pc[c] = "idle"
    /\ requests < MaxRequests
    /\ requests' = requests + 1
    /\ est' = [est EXCEPT ![c] = estimated_total_tokens]
    /\ seen' = [seen EXCEPT ![c] = get_current_usage(c, readOk)]
    /\ IF can_process_request(get_current_usage(c, readOk),
                              estimated_total_tokens)
       THEN /\ pc' = [pc EXCEPT ![c] = "invoking"]
            /\ result' = [result EXCEPT ![c] = "pending"]
       ELSE /\ pc' = pc
            /\ result' = [result EXCEPT ![c] = "daily_budget_exceeded"]
    /\ UNCHANGED <<usage_table, today, date_key, actual, paidCalls>>
    /\ UNCHANGED nonLedgerVars

\* bedrock_client.invoke_model: the paid call; it raises, or it answers and
\* _extract_token_count gives the actual tokens (0 when it cannot).
InvokeModel(c, invokeOk, actual_tokens) ==
    /\ pc[c] = "invoking"
    /\ paidCalls' = paidCalls + 1
    /\ est' = [est EXCEPT ![c] = 0]
    /\ seen' = [seen EXCEPT ![c] = 0]
    /\ IF invokeOk
       THEN /\ actual' = [actual EXCEPT ![c] = actual_tokens]
            /\ pc' = [pc EXCEPT ![c] = "updating"]
            /\ result' = result
       ELSE /\ actual' = actual
            /\ pc' = [pc EXCEPT ![c] = "idle"]
            /\ result' = [result EXCEPT ![c] = "invocation_failed"]
    /\ UNCHANGED <<usage_table, today, date_key, requests>>
    /\ UNCHANGED nonLedgerVars

\* self.update_usage(actual_tokens) and the return of the response body:
\* json.loads(response['body'].read()) is inside the try, after the body was
\* read once by _extract_token_count; when it raises, the except clause
\* returns invocation_failed.
UpdateUsage(c, writeOk, bodyOk) ==
    /\ pc[c] = "updating"
    /\ usage_table' = update_usage(c, actual[c], writeOk)
    /\ pc' = [pc EXCEPT ![c] = "idle"]
    /\ result' = [result EXCEPT ![c] =
                     IF bodyOk THEN "ok" ELSE "invocation_failed"]
    /\ actual' = [actual EXCEPT ![c] = 0]
    /\ UNCHANGED <<today, date_key, est, seen, paidCalls, requests>>
    /\ UNCHANGED nonLedgerVars


\* ------------------------------------------------------------------------
\* Trading cycle state machine (CDK stack) and cycle start
\* ------------------------------------------------------------------------
NumExecutions == 2
Executions == 1..NumExecutions

\* timeout: cdk.Duration.minutes(30); Wait states: cdk.Duration.seconds(10)
TimeoutSeconds == 1800
WaitSeconds == 10
\* config.get("daily_budget_usd", 50.0)
daily_budget_usd == 50

\* The chain built by startDataCollection.next(...)...next(logResults).
definition ==
    << "StartDataCollection", "WaitForDataCollection", "CheckDataCollection",
       "IsDataCollectionComplete",
       "StartAnalysis", "WaitForAnalysis", "CheckAnalysis",
       "IsAnalysisComplete",
       "ExecuteTrading", "WaitForExecution", "CheckExecution",
       "IsExecutionComplete",
       "LogResults" >>

\* The tasks that issue a stage's request: startDataCollection,
\* startAnalysis, executeTrading.
StartTasks == {"StartDataCollection", "StartAnalysis", "ExecuteTrading"}

TaskStates == {"StartDataCollection", "CheckDataCollection", "StartAnalysis",
               "CheckAnalysis", "ExecuteTrading", "CheckExecution",
               "LogResults"}

CheckStates == {"CheckDataCollection", "CheckAnalysis", "CheckExecution"}

WaitStates == {"WaitForDataCollection", "WaitForAnalysis", "WaitForExecution"}

\* Choice states: .when(booleanEquals('$.Payload.isComplete', true), X)
\*                .otherwise(Y)
\* The data collection choice going back to the start task when the
\* collection is not complete.
isDataCollectionComplete_restarting ==
    [when |-> "StartAnalysis", otherwise |-> "StartDataCollection"]

isDataCollectionComplete ==
    [when |-> "StartAnalysis", otherwise |-> "WaitForDataCollection"]

\* The analysis choice moving on whatever the completion check said.
isAnalysisComplete_ungated ==
    [when |-> "ExecuteTrading", otherwise |-> "ExecuteTrading"]

isAnalysisComplete ==
    [when |-> "ExecuteTrading", otherwise |-> "WaitForAnalysis"]

isExecutionComplete ==
    [when |-> "LogResults", otherwise |-> "WaitForExecution"]

ChoiceOf(s) ==
    CASE s = "IsDataCollectionComplete" -> isDataCollectionComplete
      [] s = "IsAnalysisComplete" -> isAnalysisComplete
      [] s = "IsExecutionComplete" -> isExecutionComplete

ChoiceStates == {"IsDataCollectionComplete", "IsAnalysisComplete",
                 "IsExecutionComplete"}

IndexOf(s) == CHOOSE i \in 1..Len(definition) : definition[i] = s

\* .next(): the state after s in the chain; the chain ends after LogResults.
NextState(s) ==
    IF IndexOf(s) < Len(definition) THEN definition[IndexOf(s) + 1] ELSE "End"

\* An execution that goes on whatever time has passed.
Running_without_timeout(e) == status[e] = "RUNNING"

\* The execution is running and the state machine's timeout has not passed.
Running(e) == status[e] = "RUNNING" /\ elapsed[e] < TimeoutSeconds

CycleStart ==
    /\ status = [e \in Executions |-> "NOT_STARTED"]
    /\ state = [e \in Executions |-> "None"]
    /\ isComplete = [e \in Executions |-> FALSE]
    /\ elapsed = [e \in Executions |-> 0]
    /\ logged = [e \in Executions |-> FALSE]
    /\ budgetChecks = [e \in Executions |-> 0]
    /\ reason = [e \in Executions |-> "none"]
    /\ ruleEnabled = TRUE

\* _check_budget_available: current_cost < daily_budget_usd, True when the
\* metric query raises.
check_budget_available(current_cost, metricOk) ==
    IF metricOk THEN current_cost < daily_budget_usd ELSE TRUE

\* dailyTradingRule.addTarget(SfnStateMachine): the schedule starts an
\* execution of the state machine.
ScheduledStart(e) ==
    /\ ruleEnabled
    /\ status[e] = "NOT_STARTED"
    /\ status' = [status EXCEPT ![e] = "RUNNING"]
    /\ state' = [state EXCEPT ![e] = definition[1]]
    /\ UNCHANGED <<isComplete, elapsed, logged, budgetChecks, reason,
                   ruleEnabled>>
    /\ UNCHANGED nonCycleVars

\* MCPOrchestrator.start_trading_cycle: the cycle is canceled when the budget
\* check fails, otherwise the normal trading cycle (the pipeline sequenced
\* by the state machine) is run.
start_trading_cycle(e, current_cost, metricOk) ==
    /\ status[e] = "NOT_STARTED"
    /\ budgetChecks' = [budgetChecks EXCEPT ![e] = @ + 1]
    /\ IF check_budget_available(current_cost, metricOk)
       THEN /\ status' = [status EXCEPT ![e] = "RUNNING"]
            /\ state' = [state EXCEPT ![e] = definition[1]]
            /\ reason' = reason
       ELSE /\ status' = [status EXCEPT ![e] = "canceled"]
            /\ state' = state
            /\ reason' = [reason EXCEPT ![e] = "budget_limit_reached"]
    /\ UNCHANGED <<isComplete, elapsed, logged, ruleEnabled>>
    /\ UNCHANGED nonCycleVars

\* One conversation id used by the tasks of every execution.
conversation_shared(e) == 1

\* conversationId: JsonPath.stringAt('$.Payload.conversationId'): the tasks
\* of an execution work on the conversation that execution started.
conversation_of(e) == e

\* A LambdaInvoke task ran to completion.  The payload of a check task
\* carries isComplete; LogResults writes the cycle log and ends the chain.
TaskSucceeded(e, complete) ==
    /\ Running(e)
    /\ state[e] \in TaskStates
    /\ isComplete' = [isComplete EXCEPT ![e] =
                         IF state[e] \in CheckStates THEN complete ELSE FALSE]
    /\ logged' = [logged EXCEPT ![conversation_of(e)] =
                     @ \/ state[e] = "LogResults"]
    /\ state' = [state EXCEPT ![e] = NextState(state[e])]
    /\ status' = [status EXCEPT ![e] =
                     IF NextState(state[e]) = "End" THEN "SUCCEEDED" ELSE @]
    /\ UNCHANGED <<elapsed, budgetChecks, reason, ruleEnabled>>
    /\ UNCHANGED nonCycleVars

\* A LambdaInvoke task failed: no Catch is declared, the execution fails.
TaskFailed(e) ==
    /\ Running(e)
    /\ state[e] \in TaskStates
    /\ status' = [status EXCEPT ![e] = "FAILED"]
    /\ UNCHANGED <<state, isComplete, elapsed, logged, budgetChecks, reason,
                   ruleEnabled>>
    /\ UNCHANGED nonCycleVars

\* A Wait state: WaitSeconds pass, then the next state of the chain.
Wait(e) ==
    /\ Running(e)
    /\ state[e] \in WaitStates
    /\ elapsed' = [elapsed EXCEPT ![e] = @ + WaitSeconds]
    /\ state' = [state EXCEPT ![e] = NextState(state[e])]
    /\ UNCHANGED <<status, isComplete, logged, budgetChecks, reason,
                   ruleEnabled>>
    /\ UNCHANGED nonCycleVars

\* A Choice state on $.Payload.isComplete.
Choice(e) ==
    /\ Running(e)
    /\ state[e] \in ChoiceStates
    /\ state' = [state EXCEPT ![e] =
                    IF isComplete[e] THEN ChoiceOf(state[e]).when
                                     ELSE ChoiceOf(state[e]).otherwise]
    /\ UNCHANGED <<status, isComplete, elapsed, logged, budgetChecks, reason,
                   ruleEnabled>>
    /\ UNCHANGED nonCycleVars

\* StateMachine timeout: the execution is timed out wherever it stands.
TimeOut(e) ==
    /\ status[e] = "RUNNING"
    /\ elapsed[e] >= TimeoutSeconds
    /\ status' = [status EXCEPT ![e] = "TIMED_OUT"]
    /\ UNCHANGED <<state, isComplete, elapsed, logged, budgetChecks, reason,
                   ruleEnabled>>
    /\ UNCHANGED nonCycleVars

\* Every execution that was ever started is listed.
listed_any_status(e) == status[e] \notin {"NOT_STARTED", "canceled"}

\* list_executions(statusFilter='RUNNING')
listed(e) == status[e] = "RUNNING"

\* AITrading-EmergencyShutdown handler: stop every running execution and
\* disable the schedule rule.
EmergencyShutdown ==
    /\ ruleEnabled
    /\ status' = [e \in Executions |->
                     IF listed(e) THEN "ABORTED" ELSE status[e]]
    /\ ruleEnabled' = FALSE
    /\ UNCHANGED <<state, isComplete, elapsed, logged, budgetChecks, reason>>
    /\ UNCHANGED nonCycleVars


\* ------------------------------------------------------------------------
\* Signal agent: _make_final_decision
\* ------------------------------------------------------------------------
Actions == {"buy", "sell", "hold"}
\* risk_level of risk_agent as received; "absent" stands for a missing key
RiskLevels == {"low", "medium", "high", "extreme", "absent"}
StrengthSamples == {-100000, -50000, -49999, 0, 49999, 50000, 80000}
ConfidenceSamples == {0, 29999, 30000, 49999, 50000, 69999, 70000, 90000}

risk_thresholds == [low |-> 30000, medium |-> 50000, high |-> 70000]

\* analysis_responses.get("signal_agent", {}).get("signal_strength", 0)
signal_score(responses) ==
    IF responses.signal_present THEN responses.signal_strength ELSE 0

\* A missing risk level taken as medium.
risk_assessment_default_medium(responses) ==
    IF responses.risk_level = "absent" THEN "medium" ELSE responses.risk_level

\* analysis_responses.get("risk_agent", {}).get("risk_level", "high")
risk_assessment(responses) ==
    IF responses.risk_level = "absent" THEN "high" ELSE responses.risk_level

\* The default threshold for every risk level.
threshold_default_only(risk) == 50000

\* risk_thresholds.get(risk_assessment, 0.5)
threshold_of(risk) ==
    IF risk \in DOMAIN risk_thresholds THEN risk_thresholds[risk] ELSE 50000

\* The decision returned as the model gave it, without the hold override.
hold_override_missing(decision, threshold) == decision

\* if final_decision["confidence"] < action_threshold: action = "hold"
hold_override(decision, threshold) ==
    IF decision.confidence < threshold
    THEN [decision EXCEPT !.action = "hold"]
    ELSE decision

DecisionStart ==
    /\ analysis_responses =
           [signal_present |-> FALSE, signal_strength |-> 0,
            risk_level |-> "absent"]
    /\ model_output = [action |-> "hold", confidence |-> 0]
    /\ action_threshold = 0
    /\ final_decision = [action |-> "hold", confidence |-> 0]
    /\ decided = FALSE

\* The inputs of one call: the agents' responses and the decision that
\* _parse_model_output reads from the model's answer.
DecisionInputs ==
    /\ analysis_responses \in
           [signal_present : {TRUE}, signal_strength : StrengthSamples,
            risk_level : RiskLevels]
           \cup [signal_present : {FALSE}, signal_strength : {0},
                 risk_level : RiskLevels]
    /\ model_output \in [action : Actions, confidence : ConfidenceSamples]
    /\ action_threshold = 0
    /\ final_decision = [action |-> "hold", confidence |-> 0]
    /\ decided = FALSE

make_final_decision ==
    /\ ~decided
    /\ action_threshold' = threshold_of(risk_assessment(analysis_responses))
    /\ final_decision' =
           hold_override(model_output,
                         threshold_of(risk_assessment(analysis_responses)))
    /\ decided' = TRUE
    /\ UNCHANGED <<analysis_responses, model_output>>
    /\ UNCHANGED nonDecisionVars

\* ------------------------------------------------------------------------
\* Execution agent: _validate_trade_request
\* ------------------------------------------------------------------------
QuantitySamples == {0, 1, 100}
PriceSamples == {1, 3000}
CashSamples == {0, 2999, 3000, 200000, 299999, 300000, 300001}
HeldSamples == {0, 99, 100}

\* account_info.get("cash", {}).get("available", 0)
available_cash(info) == IF info.cash_present THEN info.available ELSE 0

\* required_cash = current_price * quantity
required_cash(price, request) == price * request.quantity

\* The funds test with equality refused as well.
insufficient_funds_inclusive(required, available) == required >= available

\* if required_cash > available_cash
insufficient_funds(required, available) == required > available

\* The returned dictionary: only a buy order is tested, against the cash.
validate_trade_request(request, info, price) ==
    IF /\ request.action = "buy"
       /\ insufficient_funds(required_cash(price, request),
                             available_cash(info))
    THEN [valid |-> FALSE, message |-> "Insufficient funds"]
    ELSE [valid |-> TRUE, message |-> "none"]

GatewayStart ==
    /\ trade_request = [action |-> "hold", quantity |-> 0]
    /\ account_info = [cash_present |-> FALSE, available |-> 0, held |-> 0]
    /\ current_price = 1
    /\ validation = [valid |-> TRUE, message |-> "none"]
    /\ validated = FALSE

\* The inputs of one call: the request, the account (cash and the quantity
\* held of the requested ticker) and the price.
GatewayInputs ==
    /\ trade_request \in [action : Actions, quantity : QuantitySamples]
    /\ account_info \in
           [cash_present : {TRUE}, available : CashSamples,
            held : HeldSamples]
           \cup [cash_present : {FALSE}, available : {0},
                 held : HeldSamples]
    /\ current_price \in PriceSamples
    /\ validation = [valid |-> TRUE, message |-> "none"]
    /\ validated = FALSE

ValidateTradeRequest ==
    /\ ~validated
    /\ validation' =
           validate_trade_request(trade_request, account_info, current_price)
    /\ validated' = TRUE
    /\ UNCHANGED <<trade_request, account_info, current_price>>
    /\ UNCHANGED nonGatewayVars

\* ------------------------------------------------------------------------
\* Execution agent: order submission on the TradingOrders table
\* ------------------------------------------------------------------------
NumOrders == 1
NumSubmitters == 2
MaxSubmissions == 2
MaxRetries == 1

OrderIds == 1..NumOrders
Submitters == 1..NumSubmitters

\* An item keyed by the order id together with its writer.
partition_key_per_writer(item) == <<item.order_id, item.writer>>

\* partitionKey: { name: 'order_id', type: STRING }
partition_key(item) == item.order_id

\* The items of the table stored under the key of the given item.
existing(tbl, item) == {i \in tbl : partition_key(i) = partition_key(item)}

\* A write of an item: it replaces the item stored under its key, if any.
put_item(tbl, item) == (tbl \ existing(tbl, item)) \cup {item}

\* The orders recorded under an order id.
orders_of(tbl, id) == {i \in tbl : i.order_id = id}

\* A submission that creates the order whether or not it exists.
creates_always(tbl, item) == TRUE

\* submit creates the order only when none exists under its key.
creates(tbl, item) == existing(tbl, item) = {}

\* Every failed attempt is retried.
retry_always(attempt) == TRUE

\* A failed attempt is retried while the retries are not used up.
retry_allowed(attempt) == attempt <= MaxRetries

\* The status submit returns: that of the order recorded for the item.
status_of(tbl, item) ==
    IF orders_of(tbl, item.order_id) = {} THEN "absent"
    ELSE (CHOOSE i \in orders_of(tbl, item.order_id) : TRUE).status

new_item(s, st) ==
    [order_id |-> sub_order[s], writer |-> s, status |-> st]

SubmitStart ==
    /\ orders_table = {}
    /\ placed = [id \in OrderIds |-> 0]
    /\ sub_pc = [s \in Submitters |-> "idle"]
    /\ sub_order = [s \in Submitters |-> 1]
    /\ sub_attempts = [s \in Submitters |-> 0]
    /\ sub_result = [s \in Submitters |-> "none"]
    /\ submissions = 0

\* submit(order) begins: a rejected validation is reported at once; an order
\* already recorded is returned as it is; otherwise the attempts start.
BeginSubmit(s, id, valid) ==
    /\ sub_pc[s] = "idle"
    /\ submissions < MaxSubmissions
    /\ submissions' = submissions + 1
    /\ sub_order' = [sub_order EXCEPT ![s] = id]
    /\ sub_attempts' = [sub_attempts EXCEPT ![s] = 0]
    /\ IF ~valid
       THEN /\ sub_pc' = [sub_pc EXCEPT ![s] = "done"]
            /\ sub_result' = [sub_result EXCEPT ![s] = "rejected"]
       ELSE IF ~creates(orders_table,
                        [order_id |-> id, writer |-> s, status |-> "none"])
       THEN /\ sub_pc' = [sub_pc EXCEPT ![s] = "done"]
            /\ sub_result' = [sub_result EXCEPT ![s] =
                   status_of(orders_table,
                       [order_id |-> id, writer |-> s, status |-> "none"])]
       ELSE /\ sub_pc' = [sub_pc EXCEPT ![s] = "trying"]
            /\ sub_result' = [sub_result EXCEPT ![s] = "pending"]
    /\ UNCHANGED <<orders_table, placed>>
    /\ UNCHANGED nonSubmitVars

\* One attempt: the order is created unless it exists, and its status is
\* returned.
AttemptSucceeded(s) ==
    /\ sub_pc[s] = "trying"
    /\ sub_attempts' = [sub_attempts EXCEPT ![s] = @ + 1]
    /\ IF creates(orders_table, new_item(s, "submitted"))
       THEN /\ orders_table' =
                   put_item(orders_table, new_item(s, "submitted"))
            /\ placed' = [placed EXCEPT ![sub_order[s]] = @ + 1]
       ELSE UNCHANGED <<orders_table, placed>>
    /\ sub_pc' = [sub_pc EXCEPT ![s] = "done"]
    /\ sub_result' = [sub_result EXCEPT ![s] =
           status_of(orders_table', new_item(s, "submitted"))]
    /\ UNCHANGED <<sub_order, submissions>>
    /\ UNCHANGED nonSubmitVars

\* One attempt failed transiently: it is retried while retries remain, then
\* the order is marked failed.
AttemptFailed(s) ==
    /\ sub_pc[s] = "trying"
    /\ sub_attempts' = [sub_attempts EXCEPT ![s] = @ + 1]
    /\ IF retry_allowed(sub_attempts[s] + 1)
       THEN UNCHANGED <<orders_table, sub_pc, sub_result>>
       ELSE /\ orders_table' =
                   IF creates(orders_table, new_item(s, "failed"))
                   THEN put_item(orders_table, new_item(s, "failed"))
                   ELSE orders_table
            /\ sub_pc' = [sub_pc EXCEPT ![s] = "done"]
            /\ sub_result' = [sub_result EXCEPT ![s] =
                   status_of(orders_table', new_item(s, "failed"))]
    /\ UNCHANGED <<placed, sub_order, submissions>>
    /\ UNCHANGED nonSubmitVars

\* The execution surface confirms a submitted order.
ConfirmOrder(id) ==
    /\ \E i \in orders_table :
          /\ i.order_id = id
          /\ i.status = "submitted"
          /\ orders_table' =
                 (orders_table \ {i}) \cup {[i EXCEPT !.status = "confirmed"]}
    /\ UNCHANGED <<placed, sub_pc, sub_order, sub_attempts, sub_result,
                   submissions>>
    /\ UNCHANGED nonSubmitVars

\* The execution surface rejects or fails a submitted order.
ResolveOrder(id, st) ==
    /\ \E i \in orders_table :
          /\ i.order_id = id
          /\ i.status = "submitted"
          /\ orders_table' =
                 (orders_table \ {i}) \cup {[i EXCEPT !.status = st]}
    /\ UNCHANGED <<placed, sub_pc, sub_order, sub_attempts, sub_result,
                   submissions>>
    /\ UNCHANGED nonSubmitVars

\* The submitter is ready for another submission.
SubmitReturn(s) ==
    /\ sub_pc[s] = "done"
    /\ sub_pc' = [sub_pc EXCEPT ![s] = "idle"]
    /\ sub_attempts' = [sub_attempts EXCEPT ![s] = 0]
    /\ sub_result' = [sub_result EXCEPT ![s] = "none"]
    /\ UNCHANGED <<orders_table, placed, sub_order, submissions>>
    /\ UNCHANGED nonSubmitVars

\* ------------------------------------------------------------------------
\* execute_trading_cycle_with_budget_control
\* ------------------------------------------------------------------------
LimitSamples == {20, 100}

\* The usage compared with the limit as a fraction rather than a percentage.
usage_fraction_below(usage, limit, percent) == usage < percent * limit

\* usage_percent = (current_usage / daily_limit) * 100; usage_percent < p
usage_percent_below(usage, limit, percent) == usage * 100 < percent * limit

\* The bands closed at their lower edge: exactly 50% still collects
\* everything, exactly 80% still collects reduced news and full technical.
collections_bands_inclusive(usage, limit) ==
    IF usage * 100 <= 50 * limit
    THEN [stock |-> "full", news |-> "full", policy |-> "full",
          technical |-> "full"]
    ELSE IF usage * 100 <= 80 * limit
    THEN [stock |-> "full", news |-> "reduced", policy |-> "none",
          technical |-> "full"]
    ELSE [stock |-> "full", news |-> "none", policy |-> "none",
          technical |-> "minimal"]

\* The collections made for a usage: stock data always, then all of news,
\* policy and technical under 50%, reduced news and technical without policy
\* under 80%, and only minimal technical from there on.
collections(usage, limit) ==
    IF usage_percent_below(usage, limit, 50)
    THEN [stock |-> "full", news |-> "full", policy |-> "full",
          technical |-> "full"]
    ELSE IF usage_percent_below(usage, limit, 80)
    THEN [stock |-> "full", news |-> "reduced", policy |-> "none",
          technical |-> "full"]
    ELSE [stock |-> "full", news |-> "none", policy |-> "none",
          technical |-> "minimal"]

NothingDispatched ==
    [stock |-> "none", news |-> "none", policy |-> "none",
     technical |-> "none"]

ScopeStart ==
    /\ stored_usage = 0
    /\ daily_limit = 100
    /\ usage_read = 0
    /\ dispatched = NothingDispatched
    /\ scope_done = FALSE

\* The inputs of one call: the limit and the day's recorded usage.
ScopeInputs ==
    /\ daily_limit \in LimitSamples
    /\ stored_usage \in 0..(daily_limit + daily_limit \div 10)
    /\ usage_read = 0
    /\ dispatched = NothingDispatched
    /\ scope_done = FALSE

\* stock_data_result = collect_stock_data(conversation_id): the first
\* statement, before the usage is read.
collect_stock_data ==
    /\ ~scope_done
    /\ dispatched.stock = "none"
    /\ dispatched' = [dispatched EXCEPT !.stock = "full"]
    /\ UNCHANGED <<stored_usage, daily_limit, usage_read, scope_done>>
    /\ UNCHANGED nonScopeVars

\* The rest of the function: the usage is read as get_current_usage reads
\* it (0 when the read raises) and the collections are made for it.
execute_trading_cycle_with_budget_control(readOk) ==
    /\ ~scope_done
    /\ dispatched.stock = "full"
    /\ usage_read' = (IF readOk THEN stored_usage ELSE 0)
    /\ dispatched' =
           collections(IF readOk THEN stored_usage ELSE 0, daily_limit)
    /\ scope_done' = TRUE
    /\ UNCHANGED <<stored_usage, daily_limit>>
    /\ UNCHANGED nonScopeVars

\* ------------------------------------------------------------------------
\* ResourceAllocator
\* ------------------------------------------------------------------------
total_daily_budget == 10
MaxAmount == 3

\* Fractions that add up to more than the whole budget, in tenths.
priority_levels_oversubscribed ==
    [critical |-> 5, standard |-> 3, optional |-> 3]

\* priority_levels, in tenths of the daily budget
priority_levels == [critical |-> 5, standard |-> 3, optional |-> 2]

Priorities == DOMAIN priority_levels

\* The whole daily budget as every priority's maximum, in tenths.
max_allocation_whole_budget(priority) == 10 * total_daily_budget

\* max_allocation = priority_levels[priority] * total_daily_budget, in tenths
max_allocation(priority) == priority_levels[priority] * total_daily_budget

\* The value returned by request_allocation(priority, amount).
admits(alloc, priority, amount) ==
    /\ priority \in Priorities
    /\ (alloc[priority] + amount) * 10 <= max_allocation(priority)

AllocStart ==
    /\ allocations = [level \in Priorities |-> 0]
    /\ alloc_request = [priority |-> "critical", amount |-> 0]
    /\ alloc_result = FALSE
    /\ alloc_turn = 0

request_allocation(priority, amount) ==
    /\ alloc_request' = [priority |-> priority, amount |-> amount]
    /\ alloc_turn' = 1 - alloc_turn
    /\ alloc_result' = admits(allocations, priority, amount)
    /\ allocations' =
           IF admits(allocations, priority, amount)
           THEN [allocations EXCEPT ![priority] = @ + amount]
           ELSE allocations
    /\ UNCHANGED nonAllocVars

\* ------------------------------------------------------------------------
\* Orchestrator: completion check of a stage (checkDataCollection,
\* checkAnalysis)
\* ------------------------------------------------------------------------
MaxPolls == 2

StageAgents == {"stock", "news", "policy", "technical"}

\* Complete as soon as one dispatched task has finished.
any_finished(tasks, finished) == finished # {}

\* isComplete: every dispatched task has finished.
all_finished(tasks, finished) == tasks \subseteq finished

JoinStart ==
    /\ stage_dispatched = {}
    /\ stage_finished = {}
    /\ stage_complete = FALSE
    /\ stage_polls = 0

\* start*: the tasks of the stage are dispatched to the agents.
start_stage(tasks) ==
    /\ stage_dispatched = {}
    /\ tasks # {}
    /\ stage_dispatched' = tasks
    /\ UNCHANGED <<stage_finished, stage_complete, stage_polls>>
    /\ UNCHANGED nonJoinVars

\* An agent's task finishes.
AgentTaskFinished(t) ==
    /\ t \in stage_dispatched \ stage_finished
    /\ stage_finished' = stage_finished \cup {t}
    /\ UNCHANGED <<stage_dispatched, stage_complete, stage_polls>>
    /\ UNCHANGED nonJoinVars

\* check*: the completion check of the stage answers isComplete.
check_stage ==
    /\ stage_dispatched # {}
    /\ ~stage_complete
    /\ stage_polls < MaxPolls
    /\ stage_polls' = stage_polls + 1
    /\ stage_complete' = all_finished(stage_dispatched, stage_finished)
    /\ UNCHANGED <<stage_dispatched, stage_finished>>
    /\ UNCHANGED nonJoinVars

\* The cycle stage a state of the definition belongs to.
StageOf(s) ==
    CASE s \in {"StartDataCollection", "WaitForDataCollection",
                "CheckDataCollection", "IsDataCollectionComplete"}
              -> "CollectingData"
      [] s \in {"StartAnalysis", "WaitForAnalysis", "CheckAnalysis",
                "IsAnalysisComplete"} -> "Analyzing"
      [] s \in {"ExecuteTrading", "WaitForExecution", "CheckExecution",
                "IsExecutionComplete"} -> "Executing"
      [] s = "LogResults" -> "Logging"
      [] OTHER -> "Completed"

\* The stage of a cycle: where a running execution stands, or how it ended.
CycleStage(e) ==
    CASE status[e] = "NOT_STARTED" -> "NotStarted"
      [] status[e] = "canceled" -> "Canceled"
      [] status[e] = "RUNNING" -> StageOf(state[e])
      [] status[e] = "SUCCEEDED" -> "Completed"
      [] status[e] = "ABORTED" -> "Aborted"
      [] OTHER -> "Failed"

Ended(e) == status[e] \in {"SUCCEEDED", "FAILED", "TIMED_OUT", "ABORTED"}

\* ------------------------------------------------------------------------
\* Specifications
\* ------------------------------------------------------------------------

\* Concurrent callers of TokenUsageManager on the shared usage table.
InitLedger ==
    /\ LedgerStart
    /\ CycleStart
    /\ DecisionStart
    /\ GatewayStart
    /\ SubmitStart
    /\ ScopeStart
    /\ AllocStart
    /\ JoinStart

NextLedger ==
    \/ \E c \in Callers : Construct(c)
    \/ NewDay
    \/ \E c \in Callers, e \in 1..MaxTokens, readOk \in BOOLEAN :
           CheckBudget(c, e, readOk)
    \/ \E c \in Callers, invokeOk \in BOOLEAN, a \in 0..MaxTokens :
           InvokeModel(c, invokeOk, a)
    \/ \E c \in Callers, writeOk \in BOOLEAN, bodyOk \in BOOLEAN :
           UpdateUsage(c, writeOk, bodyOk)

SpecLedger == InitLedger /\ [][NextLedger]_vars

ReservationTolerance == 1

\* Token counts a model answer can report, the estimate notwithstanding.
ActualSamples == 0..(DailyTokenLimit + ReservationTolerance + 1)

\* The same callers, with model answers of any reported size.
NextRecord ==
    \/ \E c \in Callers : Construct(c)
    \/ NewDay
    \/ \E c \in Callers, e \in 1..MaxTokens, readOk \in BOOLEAN :
           CheckBudget(c, e, readOk)
    \/ \E c \in Callers, invokeOk \in BOOLEAN, a \in ActualSamples :
           InvokeModel(c, invokeOk, a)
    \/ \E c \in Callers, writeOk \in BOOLEAN, bodyOk \in BOOLEAN :
           UpdateUsage(c, writeOk, bodyOk)

SpecRecord == InitLedger /\ [][NextRecord]_vars

InitCycle ==
    /\ LedgerStart
    /\ CycleStart
    /\ DecisionStart
    /\ GatewayStart
    /\ SubmitStart
    /\ ScopeStart
    /\ AllocStart
    /\ JoinStart

CostSamples == {0, daily_budget_usd - 1, daily_budget_usd,
                daily_budget_usd + 1}

\* One execution of the state machine, with its clock.
NextCycle ==
    \/ ScheduledStart(1)
    \/ \E cost \in CostSamples, metricOk \in BOOLEAN :
           start_trading_cycle(1, cost, metricOk)
    \/ \E complete \in BOOLEAN : TaskSucceeded(1, complete)
    \/ TaskFailed(1)
    \/ Wait(1)
    \/ Choice(1)
    \/ TimeOut(1)
    \/ EmergencyShutdown

SpecCycle == InitCycle /\ [][NextCycle]_vars

\* The two budget checks side by side, within one day: the token ledger's
\* callers and the orchestrator's start of a trading cycle.
NextBudget ==
    \/ \E c \in Callers : Construct(c)
    \/ \E c \in Callers, e \in 1..MaxTokens, readOk \in BOOLEAN :
           CheckBudget(c, e, readOk)
    \/ \E c \in Callers, invokeOk \in BOOLEAN, a \in 0..MaxTokens :
           InvokeModel(c, invokeOk, a)
    \/ \E c \in Callers, writeOk \in BOOLEAN, bodyOk \in BOOLEAN :
           UpdateUsage(c, writeOk, bodyOk)
    \/ \E cost \in CostSamples, metricOk \in BOOLEAN :
           start_trading_cycle(1, cost, metricOk)

SpecBudget == InitLedger /\ [][NextBudget]_vars

\* Concurrent executions of the state machine whose completion checks
\* answer complete at the first poll (SpecCycle has the polling loops and
\* the timeout).
NextCycles ==
    \/ \E e \in Executions : ScheduledStart(e)
    \/ \E e \in Executions, cost \in CostSamples, metricOk \in BOOLEAN :
           start_trading_cycle(e, cost, metricOk)
    \/ \E e \in Executions : TaskSucceeded(e, TRUE)
    \/ \E e \in Executions : TaskFailed(e)
    \/ \E e \in Executions : Wait(e)
    \/ \E e \in Executions : Choice(e)
    \/ EmergencyShutdown

SpecCycles == InitCycle /\ [][NextCycles]_vars

\* One call of _make_final_decision on each input.
InitDecision ==
    /\ LedgerStart
    /\ CycleStart
    /\ DecisionInputs
    /\ GatewayStart
    /\ SubmitStart
    /\ ScopeStart
    /\ AllocStart
    /\ JoinStart

NextDecision ==
    \/ make_final_decision

SpecDecision == InitDecision /\ [][NextDecision]_vars

\* One call of _validate_trade_request on each input.
InitGateway ==
    /\ LedgerStart
    /\ CycleStart
    /\ DecisionStart
    /\ GatewayInputs
    /\ SubmitStart
    /\ ScopeStart
    /\ AllocStart
    /\ JoinStart

NextGateway ==
    \/ ValidateTradeRequest

SpecGateway == InitGateway /\ [][NextGateway]_vars

\* Concurrent and repeated submissions of orders.
InitSubmit ==
    /\ LedgerStart
    /\ CycleStart
    /\ DecisionStart
    /\ GatewayStart
    /\ SubmitStart
    /\ ScopeStart
    /\ AllocStart
    /\ JoinStart

NextSubmit ==
    \/ \E s \in Submitters, id \in OrderIds, valid \in BOOLEAN :
           BeginSubmit(s, id, valid)
    \/ \E s \in Submitters : AttemptSucceeded(s)
    \/ \E s \in Submitters : AttemptFailed(s)
    \/ \E id \in OrderIds : ConfirmOrder(id)
    \/ \E id \in OrderIds, st \in {"rejected", "failed"} :
           ResolveOrder(id, st)
    \/ \E s \in Submitters : SubmitReturn(s)

SpecSubmit == InitSubmit /\ [][NextSubmit]_vars

\* One call of execute_trading_cycle_with_budget_control on each input.
InitScope ==
    /\ LedgerStart
    /\ CycleStart
    /\ DecisionStart
    /\ GatewayStart
    /\ SubmitStart
    /\ ScopeInputs
    /\ AllocStart
    /\ JoinStart

NextScope ==
    \/ collect_stock_data
    \/ \E readOk \in BOOLEAN :
           execute_trading_cycle_with_budget_control(readOk)

SpecScope == InitScope /\ [][NextScope]_vars

\* Any sequence of requests to one ResourceAllocator.
InitAllocator ==
    /\ LedgerStart
    /\ CycleStart
    /\ DecisionStart
    /\ GatewayStart
    /\ SubmitStart
    /\ ScopeStart
    /\ AllocStart
    /\ JoinStart

NextAllocator ==
    \/ \E priority \in Priorities \cup {"unknown"}, amount \in 0..MaxAmount :
           request_allocation(priority, amount)

SpecAllocator == InitAllocator /\ [][NextAllocator]_vars

\* One stage: its tasks are dispatched, finish in any order, and the
\* completion check is polled meanwhile (nothing dispatched at first).
NextJoin ==
    \/ \E tasks \in SUBSET StageAgents : start_stage(tasks)
    \/ \E t \in StageAgents : AgentTaskFinished(t)
    \/ check_stage

InitJoin == InitAllocator

SpecJoin == InitJoin /\ [][NextJoin]_vars

\* ------------------------------------------------------------------------
\* Properties of the token budget (SpecLedger)
\* ------------------------------------------------------------------------
InFlight(c) == pc[c] = "invoking"

\* C1: in every budget period the recorded consumption never exceeds the
\* period's limit, after any interleaving of admissions and recordings.
C1_ConsumedWithinLimit ==
    \A d \in Dates : usage_table[d] <= DailyTokenLimit

\* C2: a request whose estimate does not fit the period's recorded
\* consumption is refused (never admitted), and a refusal changes nothing
\* of the ledger or of the caller but the returned error.
C2_RefusedWheneverOverLimit ==
    [][\A c \in Callers :
          /\ (pc[c] = "idle" /\ pc'[c] = "invoking")
                => usage_table[date_key[c]] + est'[c] <= DailyTokenLimit
          /\ (pc[c] = "idle" /\ pc'[c] = "idle" /\ requests' = requests + 1
                /\ result'[c] = "daily_budget_exceeded")
                => /\ usage_table' = usage_table
                   /\ paidCalls' = paidCalls
                   /\ date_key' = date_key
                   /\ actual' = actual]_vars

\* C3: two callers are never both admitted on the same period with
\* estimates that each fit the remaining budget but together do not.
C3_AtMostOneAdmitted ==
    \A c1 \in Callers, c2 \in Callers :
        (/\ c1 # c2
         /\ InFlight(c1) /\ InFlight(c2)
         /\ date_key[c1] = date_key[c2]
         /\ seen[c1] = usage_table[date_key[c1]]
         /\ seen[c2] = usage_table[date_key[c2]]
         /\ seen[c1] + est[c1] <= DailyTokenLimit
         /\ seen[c2] + est[c2] <= DailyTokenLimit)
        => seen[c1] + est[c1] + est[c2] <= DailyTokenLimit

C21_AdmissionReservesEstimate ==
    [][\A c \in Callers :
          (pc[c] = "idle" /\ pc'[c] = "invoking")
              => usage_table'[date_key[c]]
                     = usage_table[date_key[c]] + est'[c]]_vars

\* C22: whatever the actual token count, below or above the estimate, the
\* period's recorded consumption after the recording of the actual tokens
\* is at most the limit plus the reservation tolerance.
C22_RecordActualClamped ==
    [][\A c \in Callers :
          (pc[c] = "updating" /\ pc'[c] = "idle")
              => usage_table'[date_key[c]]
                     <= DailyTokenLimit + ReservationTolerance]_vars

\* C27: once the day has changed, the records of the earlier days stay as
\* they are, and a request is admitted against the record of the current
\* day.
C27_ResetOpensNewPeriod ==
    [][/\ \A d \in Dates : d < today => usage_table'[d] = usage_table[d]
       /\ \A c \in Callers :
             (pc[c] = "idle" /\ pc'[c] = "invoking")
                 => date_key[c] = today]_vars

\* C33: an admitted request whose model invocation raises returns
\* invocation_failed and leaves the recorded usage unchanged; the recorded
\* usage changes only in the update that follows a successful invocation,
\* and then by that invocation's actual token count on the caller's date.
C33_UsageChangesOnlyAfterSuccess ==
    [][/\ \A c \in Callers, a \in 0..MaxTokens :
             InvokeModel(c, FALSE, a)
             => /\ result'[c] = "invocation_failed"
                /\ pc'[c] = "idle"
                /\ usage_table' = usage_table
       /\ (usage_table' # usage_table
             => \E c \in Callers :
                    /\ pc[c] = "updating"
                    /\ pc'[c] = "idle"
                    /\ usage_table' =
                           [usage_table EXCEPT ![date_key[c]] = @ + actual[c]])
       /\ \A c \in Callers :
             pc'[c] = "updating" /\ pc[c] # "updating"
             => \E a \in 0..MaxTokens : InvokeModel(c, TRUE, a)]_vars

\* One caller's admitted request ended with invocation_failed while the
\* recorded usage is what another caller's successful invocation added.
C33_Witness ==
    \E c \in Callers, d \in Callers :
        /\ c # d
        /\ pc[c] = "idle" /\ result[c] = "invocation_failed"
        /\ pc[d] = "idle" /\ result[d] = "ok"
        /\ paidCalls = 2
        /\ usage_table[date_key[d]] = MaxTokens

\* C32: the budget checks fail open. A budget check whose usage read raises
\* sees a usage of 0 and admits the request exactly when the estimate alone
\* is within the daily limit, whatever the recorded usage; a start of the
\* trading cycle whose cost metric query raises starts the cycle, whatever
\* the cost.
C32_BudgetChecksFailOpen ==
    [][/\ \A c \in Callers, e \in 1..MaxTokens :
             CheckBudget(c, e, FALSE)
             => /\ seen'[c] = 0
                /\ (pc'[c] = "invoking" <=> e <= DailyTokenLimit)
                /\ (pc'[c] # "invoking"
                       => result'[c] = "daily_budget_exceeded")
       /\ \A cost \in CostSamples :
             start_trading_cycle(1, cost, FALSE)
             => status'[1] = "RUNNING" /\ reason'[1] = "none"]_vars

\* The only caller there is was admitted on a usage read of 0 although the
\* recorded usage plus the estimate is over the limit (the read raised),
\* and the trading cycle was started after its budget check.
C32_Witness ==
    \E c \in Callers :
        /\ pc[c] = "invoking"
        /\ seen[c] = 0
        /\ usage_table[date_key[c]] + est[c] > DailyTokenLimit
        /\ \A d \in Callers \ {c} : pc[d] = "new"
        /\ status[1] = "RUNNING"
        /\ budgetChecks[1] = 1

\* ------------------------------------------------------------------------
\* Properties of the trading cycle (SpecCycle)
\* ------------------------------------------------------------------------

\* C5: a cycle whose Analyzing stage never reports completion ends Failed
\* once its polling is exhausted, and a log record of the cycle exists.
C5_StageTimeoutFailsAndLogs ==
    \A e \in Executions :
        (status[e] = "TIMED_OUT" /\ StageOf(state[e]) = "Analyzing")
            => (CycleStage(e) = "Failed" /\ logged[e])

\* C6: every started cycle that has ended, whether completed, failed or
\* aborted, has passed through Logging.
C6_LoggingAlwaysRuns ==
    \A e \in Executions : Ended(e) => logged[e]

SpecOrder ==
    << "CollectingData", "Analyzing", "Deciding", "Executing", "Logging",
       "Completed" >>

StageOrder ==
    << "CollectingData", "Analyzing", "Executing", "Logging", "Completed" >>

C8_BudgetConsultedBeforePaidStages ==
    [][\A e \in Executions :
          /\ (state'[e] # state[e]
                /\ state'[e] \in {"StartAnalysis", "ExecuteTrading"})
                => budgetChecks'[e] > budgetChecks[e]
          /\ (reason'[e] # reason[e])
                => (CycleStage(e)' = "Aborted"
                    /\ reason'[e] = "budget_exceeded")]_vars

\* C16: once the emergency shutdown has run (the schedule rule is disabled
\* and nothing has re-armed it), no cycle starts, neither by the schedule
\* nor by a manual start, and every cycle it found outside Executing is
\* Aborted.
C16_NoStartAfterEmergencyStop ==
    [][\A e \in Executions :
          /\ (~ruleEnabled /\ status[e] = "NOT_STARTED")
                => status'[e] # "RUNNING"
          /\ (ruleEnabled /\ ~ruleEnabled' /\ status[e] = "RUNNING"
                /\ StageOf(state[e]) # "Executing")
                => CycleStage(e)' = "Aborted"]_vars

\* The order submission of the Executing stage was started and its
\* completion has not been reported yet.
SubmissionOutstanding(e) ==
    \/ state[e] \in {"WaitForExecution", "CheckExecution"}
    \/ state[e] = "IsExecutionComplete" /\ ~isComplete[e]

\* C17: a cycle is never Aborted while its order submission is outstanding:
\* an emergency stop during Executing takes effect only after the submission
\* has completed.
C17_SubmissionNotInterrupted ==
    \A e \in Executions :
        status[e] = "ABORTED" => ~SubmissionOutstanding(e)

\* C20: no execution goes on past the state machine's timeout: its clock
\* never passes TimeoutSeconds, and once the timeout has elapsed a running
\* execution takes no further step of its definition, it only ends.
C20_GlobalCeiling ==
    [][\A e \in Executions :
          /\ elapsed'[e] <= TimeoutSeconds
          /\ (status[e] = "RUNNING" /\ elapsed[e] >= TimeoutSeconds)
                => \/ status'[e] \in {"TIMED_OUT", "ABORTED"}
                   \/ /\ status'[e] = status[e]
                      /\ state'[e] = state[e]
                      /\ isComplete'[e] = isComplete[e]
                      /\ logged'[e] = logged[e]
                      /\ elapsed'[e] = elapsed[e]]_vars

\* An execution whose data collection kept reporting not-complete was timed
\* out when the timeout had elapsed.
C20_Witness ==
    \E e \in Executions :
        /\ status[e] = "TIMED_OUT"
        /\ elapsed[e] >= TimeoutSeconds
        /\ StageOf(state[e]) = "CollectingData"

\* What the model keeps of a cycle: stage, clock, outcome and results.
CycleRecord(e) ==
    <<status[e], state[e], isComplete[e], elapsed[e], logged[e],
      budgetChecks[e], reason[e]>>

Terminal(e) ==
    status[e] \in {"SUCCEEDED", "FAILED", "TIMED_OUT", "ABORTED", "canceled"}

\* C25: once a cycle has its outcome, nothing changes its record any more:
\* no task result, no timeout, no emergency shutdown.
C25_TerminalImmutable ==
    [][\A e \in Executions :
          Terminal(e) => CycleRecord(e)' = CycleRecord(e)]_vars

\* The emergency shutdown ran after a cycle had succeeded, and the cycle is
\* still succeeded.
C25_Witness ==
    \E e \in Executions :
        /\ status[e] = "SUCCEEDED"
        /\ logged[e]
        /\ ~ruleEnabled

\* The Wait state of the stage a state belongs to.
WaitOf(s) ==
    CHOOSE w \in WaitStates : StageOf(w) = StageOf(s)

\* C31: each stage's start task runs at most once per execution. A step into
\* a start task comes from an earlier state of the chain (the start of the
\* execution, or the preceding stage's choice with isComplete = true); the
\* only steps back in the chain are those of a choice with isComplete =
\* false, which lead to the same stage's Wait state, which lies after the
\* stage's start task.
C31_StartTasksRunOnce ==
    [][\A e \in Executions :
          state'[e] # state[e]
          => /\ (state'[e] \in StartTasks
                   => \/ state[e] = "None"
                      \/ /\ state[e] \in ChoiceStates
                         /\ isComplete[e]
                         /\ IndexOf(state[e]) < IndexOf(state'[e]))
             /\ (state[e] \in ChoiceStates /\ ~isComplete[e]
                   => /\ state'[e] = WaitOf(state[e])
                      /\ state'[e] \notin StartTasks
                      /\ \A t \in StartTasks :
                             StageOf(t) = StageOf(state[e])
                             => IndexOf(t) < IndexOf(state'[e]))
             /\ (state[e] # "None" /\ state'[e] # "End"
                  /\ IndexOf(state'[e]) < IndexOf(state[e])
                   => state[e] \in ChoiceStates /\ ~isComplete[e])]_vars

\* Two completion checks of the data collection said not complete: the
\* execution is back in the stage's Wait state for a third poll.
C31_Witness ==
    \E e \in Executions :
        /\ status[e] = "RUNNING"
        /\ state[e] = "WaitForDataCollection"
        /\ elapsed[e] >= 2 * WaitSeconds

\* ------------------------------------------------------------------------
\* Properties of the final decision (SpecDecision)
\* ------------------------------------------------------------------------
Abs(x) == IF x < 0 THEN -x ELSE x

\* C9: a returned decision whose action is not hold has a confidence of at
\* least the applied threshold; below the threshold the action is hold.
C9_NonHoldNeedsConfidence ==
    decided =>
        /\ (final_decision.action # "hold"
               => final_decision.confidence >= action_threshold)
        /\ (model_output.confidence < action_threshold
               => final_decision.action = "hold")
        /\ final_decision.confidence = model_output.confidence

\* The model asked to buy on a strong signal with a confidence under the
\* threshold, and hold was returned.
C9_Witness ==
    /\ decided
    /\ model_output.action = "buy"
    /\ signal_score(analysis_responses) >= action_threshold
    /\ model_output.confidence < action_threshold
    /\ final_decision.action = "hold"

\* The action the signal strength calls for under a threshold.
SignDirected(strength, threshold) ==
    IF Abs(strength) >= threshold
    THEN (IF strength > 0 THEN "buy" ELSE "sell")
    ELSE "hold"

\* C10: the returned action is the one the signal strength calls for: buy
\* or sell by its sign when its magnitude is at least the threshold, else
\* hold (for decisions the confidence override leaves alone).
C10_ThresholdInclusiveSignDirected ==
    (decided /\ final_decision.confidence >= action_threshold)
        => final_decision.action =
               SignDirected(signal_score(analysis_responses),
                            action_threshold)

\* C11: a call with no signal at all (no signal_agent response) returns no
\* decision, whatever the risk level.
C11_NoDecisionWithoutSignals ==
    ~(decided /\ ~analysis_responses.signal_present)

\* C28: with no signal at all the decision returned is hold, so that no
\* order follows from it.
C28_NoSignalMeansHold ==
    (decided /\ ~analysis_responses.signal_present)
        => final_decision.action = "hold"

SingleSignalComposite(strength, confidence) ==
    ((strength \div 100) * (confidence \div 100)) \div 10

\* C30: a single signal of strength 0.8 and confidence 0.9 under medium
\* risk (composite 0.72 against the threshold 0.5) yields buy.
C30_SingleStrongSignalBuys ==
    (/\ decided
     /\ analysis_responses.signal_present
     /\ analysis_responses.signal_strength = 80000
     /\ model_output.confidence = 90000
     /\ analysis_responses.risk_level = "medium")
        => /\ SingleSignalComposite(80000, 90000) >= action_threshold
           /\ final_decision.action = "buy"


\* C36: with no risk level in the responses the threshold is that of high
\* risk, 0.7; with a risk level that is none of low, medium and high the
\* threshold is 0.5; in both cases a model confidence below the threshold
\* makes the returned action hold, and the decision is otherwise returned
\* as the model gave it.
C36_MissingAndUnknownRisk ==
    decided =>
        /\ (analysis_responses.risk_level = "absent"
               => action_threshold = risk_thresholds["high"]
                  /\ action_threshold = 70000)
        /\ (analysis_responses.risk_level
                   \notin (DOMAIN risk_thresholds \cup {"absent"})
               => action_threshold = 50000)
        /\ (analysis_responses.risk_level \notin DOMAIN risk_thresholds
               => /\ (model_output.confidence < action_threshold
                        => final_decision.action = "hold")
                  /\ (model_output.confidence >= action_threshold
                        => final_decision = model_output)
                  /\ final_decision.confidence = model_output.confidence)

\* With no risk level in the responses, a buy of confidence 0.5, enough for
\* an unknown risk level, was turned into hold.
C36_Witness ==
    /\ decided
    /\ analysis_responses.risk_level = "absent"
    /\ model_output.action = "buy"
    /\ model_output.confidence = 50000
    /\ final_decision.action = "hold"

\* ------------------------------------------------------------------------
\* Properties of the trade validation (SpecGateway)
\* ------------------------------------------------------------------------

\* C12: a buy order is valid exactly when price x quantity is at most the
\* available cash (equality accepted); otherwise the validation is invalid
\* and names insufficient funds.
C12_BuyValidIffFunded ==
    (validated /\ trade_request.action = "buy")
        => /\ validation.valid
                <=> (current_price * trade_request.quantity
                        <= available_cash(account_info))
           /\ ~validation.valid
                => validation.message = "Insufficient funds"

\* Buying 100 at 3000 with 200000 available was refused.
C12_Witness ==
    /\ validated
    /\ trade_request = [action |-> "buy", quantity |-> 100]
    /\ current_price = 3000
    /\ account_info.cash_present /\ account_info.available = 200000
    /\ ~validation.valid

\* C13: a sell order is valid only when the quantity held of the ticker is
\* at least the requested quantity; otherwise the validation is invalid
\* and names the insufficient position.
C13_SellNeedsPosition ==
    (validated /\ trade_request.action = "sell"
        /\ account_info.held < trade_request.quantity)
        => /\ ~validation.valid
           /\ validation.message = "insufficient_position"

\* ------------------------------------------------------------------------
\* Properties of the order submission (SpecSubmit)
\* ------------------------------------------------------------------------

\* A submission of submitter s returns in this step with an order status.
Returns(s) ==
    /\ sub_pc[s] # "done"
    /\ sub_pc'[s] = "done"
    /\ sub_result'[s] # "rejected"

C26_StatusTransitions ==
    [][/\ \A i \in orders_table :
             \E j \in orders_table' :
                 /\ j.order_id = i.order_id
                 /\ j.writer = i.writer
                 /\ \/ j.status = i.status
                    \/ /\ i.status = "submitted"
                       /\ j.status \in {"confirmed", "rejected", "failed"}
       /\ \A j \in orders_table' :
             orders_of(orders_table, j.order_id) = {}
                 => j.status \in {"submitted", "failed"}]_vars

\* An order was rejected and is still rejected after a later submission of
\* the same order id by the other submitter.
C26_Witness ==
    \E i \in orders_table, s \in Submitters :
        /\ i.status = "rejected"
        /\ i.writer # s
        /\ sub_pc[s] = "done"
        /\ sub_order[s] = i.order_id
        /\ sub_attempts[s] = 0
        /\ submissions >= 2

\* ------------------------------------------------------------------------
\* Properties of the collection scope (SpecScope)
\* ------------------------------------------------------------------------
MinimalScope ==
    [stock |-> "full", news |-> "none", policy |-> "none",
     technical |-> "minimal"]

C35_BandsHalfOpenBelow ==
    [][/\ (scope_done'
             => /\ (usage_read' * 100 = 50 * daily_limit'
                      => /\ dispatched'.policy = "none"
                         /\ dispatched'.news = "reduced"
                         /\ dispatched'.technical = "full")
                /\ (usage_read' * 100 = 80 * daily_limit'
                      => /\ dispatched'.policy = "none"
                         /\ dispatched'.news = "none"
                         /\ dispatched'.technical = "minimal")
                /\ dispatched'.stock = "full")
       /\ (scope_done' /\ ~scope_done
             => /\ dispatched.stock = "full"
                /\ usage_read = 0
                /\ dispatched.news = "none" /\ dispatched.policy = "none"
                /\ dispatched.technical = "none")
       /\ (dispatched'.stock # dispatched.stock
             => /\ dispatched'.stock = "full"
                /\ ~scope_done'
                /\ usage_read' = usage_read)]_vars

\* At a usage of exactly 50% the stock data and the technical data were
\* collected in full, news in reduced scope and the policy data not at all.
C35_Witness ==
    /\ scope_done
    /\ stored_usage * 2 = daily_limit
    /\ usage_read = stored_usage
    /\ dispatched = [stock |-> "full", news |-> "reduced",
                     policy |-> "none", technical |-> "full"]

\* ------------------------------------------------------------------------
\* Properties of the ResourceAllocator (SpecAllocator)
\* ------------------------------------------------------------------------
Total(alloc) == alloc["critical"] + alloc["standard"] + alloc["optional"]

\* C19: each priority's admitted total stays within its fraction of the
\* daily budget, and a request that would exceed its priority's fraction
\* is refused, leaving the allocations as they were, whatever remains of
\* the whole budget.
C19_TierSubAllocation ==
    [][/\ \A level \in Priorities :
             allocations'[level] * 10
                 <= priority_levels[level] * total_daily_budget
       /\ (alloc_turn' # alloc_turn
             /\ alloc_request'.priority \in Priorities
             /\ (allocations[alloc_request'.priority]
                    + alloc_request'.amount) * 10
                   > priority_levels[alloc_request'.priority]
                         * total_daily_budget)
             => (~alloc_result' /\ allocations' = allocations)]_vars

\* A request of the optional priority was refused for going over what is
\* left of its fraction while it would have fitted the whole budget.
C19_Witness ==
    /\ ~alloc_result
    /\ alloc_request.priority = "optional"
    /\ alloc_request.amount > 0
    /\ allocations["optional"] > 0
    /\ (allocations["optional"] + alloc_request.amount) * 10
           > priority_levels["optional"] * total_daily_budget
    /\ Total(allocations) + alloc_request.amount <= total_daily_budget

\* C34: the tier fractions add up to the whole (10 tenths), after every call
\* the allocations of all tiers together are at most the total daily
\* budget, a call naming an unknown tier returns False, and a call that
\* returns False leaves every tier's allocation unchanged.
C34_TotalWithinBudget ==
    [][/\ priority_levels["critical"] + priority_levels["standard"]
             + priority_levels["optional"] = 10
       /\ Total(allocations') <= total_daily_budget
       /\ (alloc_turn' # alloc_turn
             => /\ (alloc_request'.priority \notin Priorities
                      => ~alloc_result')
                /\ (~alloc_result' => allocations' = allocations)
                /\ (alloc_result'
                      => Total(allocations')
                            = Total(allocations) + alloc_request'.amount))
      ]_vars

\* Every tier has taken all it can of its fraction, and a call naming an
\* unknown tier was refused.
C34_Witness ==
    /\ alloc_request.priority = "unknown"
    /\ alloc_request.amount > 0
    /\ ~alloc_result
    /\ \A level \in Priorities :
           (allocations[level] + 1) * 10 > max_allocation(level)

\* ------------------------------------------------------------------------
\* Properties of the stage completion check (SpecJoin)
\* ------------------------------------------------------------------------

\* C23: the completion check of a stage has answered complete only when
\* every task dispatched for the stage had finished.
C23_CompleteOnlyAfterAll ==
    stage_complete => stage_dispatched \subseteq stage_finished

\* Several tasks were dispatched, a first check answered not complete, and
\* a later one answered complete.
C23_Witness ==
    /\ stage_complete
    /\ Cardinality(stage_dispatched) >= 2
    /\ stage_polls >= 2

====
